---- MODULE Spec2Model ----
(***************************************************************************)
(* A model of downloader.py: the Downloader (URL list, existing-file      *)
(* filter, sequential retry loop) and the SessionWithHeaderRedirection    *)
(* transport (credential header on the first request and on redirects).   *)
(*                                                                         *)
(* Environment assumptions of the model: the save directory is writable   *)
(* (open() and write() do not raise OSError), URLs use default ports, and *)
(* every failure of an attempt is a requests.exceptions.RequestException  *)
(* (connection error, timeout, HTTP error status, broken stream).         *)
(***************************************************************************)
EXTENDS Integers, Sequences, FiniteSets

\* ------------------------------------------------------------------ bounds
MaxUrls == 2        \* longest URL list read from the list file
MaxHops == 1        \* most redirects the server answers within one GET
MaxChunks == 2      \* most chunks in one response body

\* --------------------------------------------------------------- constants
AUTH_HOST == "urs.earthdata.nasa.gov"
MAX_RETRIES == 5

DataA == "data.a"
DataB == "data.b"
Hosts == {AUTH_HOST, DataA, DataB}
Schemes == {"https", "http"}
Chunks == {"x"}
InitData == {<<>>, <<"x">>}   \* contents of files found in save_dir at start
ProxyVars == {"http_proxy", "https_proxy"}
Credentials == [username |-> "user", password |-> "pass"]   \* --username, --password
NoSession == [username |-> "", password |-> ""]

\* A URL is scheme://host/segs[1]/.../segs[n]?query (query "" when absent).
U1 == [scheme |-> "https", host |-> DataA, segs |-> <<"d", "a.nc">>, query |-> ""]
U2 == [scheme |-> "https", host |-> AUTH_HOST, segs |-> <<"a.nc">>, query |-> ""]
U3 == [scheme |-> "https", host |-> DataB, segs |-> <<"d", "c.nc">>, query |-> "q=1"]
URLS == {U1, U2, U3}

\* The origin of a request: what urlparse() gives rebuild_auth.
Locs == [scheme : Schemes, host : Hosts]
NoLoc == [scheme |-> "-", host |-> "-"]
LocOf(url) == [scheme |-> url.scheme, host |-> url.host]

SeqsUpTo(S, n) == UNION {[1..k -> S] : k \in 0..n}
Bodies == SeqsUpTo(Chunks, MaxChunks)
Prefix(s, n) == SubSeq(s, 1, n)

\* ------------------------------------------------------------ pure helpers

\* Path(url).name: the text after the last "/" of the whole URL string, so a
\* query string stays part of the name.
PathName(url) ==
    LET base == IF Len(url.segs) = 0 THEN url.host ELSE url.segs[Len(url.segs)]
    IN  IF url.query = "" THEN base ELSE base \o "?" \o url.query

FileNames == {PathName(u) : u \in URLS} \cup {u.segs[Len(u.segs)] : u \in URLS}

NoFile == [exists |-> FALSE, data |-> <<>>]
File(d) == [exists |-> TRUE, data |-> d]

\* requests.Session.should_strip_auth, for URLs without explicit ports.
should_strip_auth(old, new) ==
    IF old.host # new.host THEN TRUE
    ELSE IF old.scheme = "http" /\ new.scheme = "https" THEN FALSE
    ELSE old.scheme # new.scheme

\* requests.Session.rebuild_auth: strip on a change of origin, then take
\* credentials from .netrc when it has an entry for the new host.
default_rebuild_auth(orig, target, hdr, netrc) ==
    LET kept == IF hdr # "none" /\ should_strip_auth(orig, target) THEN "none" ELSE hdr
    IN  IF netrc THEN "netrc" ELSE kept

rebuild_auth_no_override(orig, target, hdr, netrc) ==
    default_rebuild_auth(orig, target, hdr, netrc)

\* SessionWithHeaderRedirection.rebuild_auth: the Authorization header of the
\* redirected request ("none", "session" or "netrc").
rebuild_auth(orig, target, hdr, netrc) ==
    LET h == default_rebuild_auth(orig, target, hdr, netrc)
    IN  IF orig.host # target.host /\ target.host # AUTH_HOST /\ orig.host # AUTH_HOST
        THEN "none"
        ELSE h

\* remove_proxy_env_vars: the environment after the loop over the two names.
env_without_http_proxy(env) == env \ {"http_proxy"}
env_without_proxies(env) == env \ {"http_proxy", "https_proxy"}

\* session.auth after rebuild_auth handled a redirect whose request ends up
\* with header hdr: deleting the header touches the request only.
auth_cleared_on_strip(auth, hdr) == IF hdr = "none" THEN NoSession ELSE auth
auth_after_rebuild(auth, hdr) == auth

\* The Authorization header session.get puts on the first request.
first_request_auth(auth) == IF auth = NoSession THEN "none" ELSE "session"

\* filename = self.save_dir / Path(url).name in download_with_retries.
download_filename_no_query(url) == url.segs[Len(url.segs)]
download_filename(url) == PathName(url)

\* Downloader.load_urls: the first column of the list file; the except
\* branch (sys.exit(1)) is taken when read_csv raises.
load_urls(t) == t.rows
load_fails_never(t) == FALSE
load_fails(t) == ~t.ok

filter_keeps_all(us, d) == us

RECURSIVE filter_inverted(_, _)
filter_inverted(us, d) ==
    IF us = <<>> THEN <<>>
    ELSE LET rest == filter_inverted(Tail(us), d)
         IN  IF d[PathName(Head(us))].exists THEN <<Head(us)>> \o rest ELSE rest

RECURSIVE filter_prepends(_, _)
filter_prepends(us, d) ==
    IF us = <<>> THEN <<>>
    ELSE LET rest == filter_prepends(Tail(us), d)
         IN  IF d[PathName(Head(us))].exists THEN rest ELSE rest \o <<Head(us)>>

RECURSIVE filter_existing_files(_, _)
filter_existing_files(us, d) ==
    IF us = <<>> THEN <<>>
    ELSE LET rest == filter_existing_files(Tail(us), d)
         IN  IF d[PathName(Head(us))].exists THEN rest ELSE <<Head(us)>> \o rest

\* open(filename, 'wb') followed by the chunk writes.
open_ab_write(old, written) == File(old.data \o written)
open_wb_write(old, written) == File(written)

IsLastAttempt_early(n) == n = MAX_RETRIES - 1
IsLastAttempt(n) == n = MAX_RETRIES

\* raise_for_status raises for 4xx and 5xx only.
StatusClasses == {"1xx", "2xx", "3xx", "4xx", "5xx"}
raise_for_status(s) == s \in {"4xx", "5xx"}

\* ------------------------------------------------------------------- state
VARIABLES
    pc,           \* "start", "main", "download_all", "attempt", "response", "exit"
    environ,      \* os.environ, restricted to the proxy variables
    proxies_removed, \* the local flag of remove_proxy_env_vars
    session_auth, \* Downloader.session.auth
    exitStatus,   \* process exit status, -1 while running
    txt,          \* the URL list file: [ok, rows]
    maxHops,      \* longest redirect chain the servers of this run answer with
    disk,         \* save_dir: file name -> [exists, data]
    disk0,        \* (history) save_dir when the run started
    urls,         \* Downloader.urls
    to_download,  \* Downloader.to_download
    idx,          \* position of download_all in to_download
    attempt,      \* loop variable of download_with_retries
    req,          \* the request most recently sent by the current GET
    redir,        \* (history) the last application of rebuild_auth
    resp,         \* (history) the final response of the latest attempt
    gets,         \* (history) session.get calls made for the current work item
    status        \* (history) per work item: Pending/Attempting/Succeeded/Failed

vars == <<pc, environ, proxies_removed, session_auth, exitStatus, txt, maxHops,
          disk, disk0, urls, to_download, idx, attempt, req, redir, resp, gets,
          status>>
envVars == <<environ, proxies_removed>>

Items == 1..MaxUrls
Terminal == {"Succeeded", "Failed"}
NoReq == [loc |-> NoLoc, auth |-> "none", hops |-> 0]
NoRedir == [orig |-> NoLoc, target |-> NoLoc, before |-> "none",
            default |-> "none", after |-> "none"]
NoResp == [code |-> "-", body |-> <<>>, ok |-> FALSE]

\* The runs explored: every URL list of up to MaxUrls entries over every
\* initial directory with servers that answer directly, and every list of at
\* most one URL with servers that redirect up to MaxHops times per GET.
Init ==
    /\ pc = "start"
    /\ environ \in SUBSET ProxyVars
    /\ proxies_removed = FALSE
    /\ session_auth = NoSession
    /\ exitStatus = -1
    /\ txt \in [ok : {TRUE}, rows : SeqsUpTo(URLS, MaxUrls)]
                 \cup {[ok |-> FALSE, rows |-> <<>>]}
    /\ maxHops \in {0, MaxHops}
    /\ maxHops > 0 => Len(txt.rows) <= 1
    /\ disk \in [FileNames -> {NoFile} \cup {File(d) : d \in InitData}]
    /\ disk0 = disk
    /\ urls = <<>>
    /\ to_download = <<>>
    /\ idx = 0
    /\ attempt = 0
    /\ req = NoReq
    /\ redir = NoRedir
    /\ resp = NoResp
    /\ gets = 0
    /\ status = [i \in Items |-> "Pending"]

\* ----------------------------------------------------------------- actions

\* main up to the construction of the Downloader: remove_proxy_env_vars.
remove_proxy_env_vars ==
    /\ pc = "start"
    /\ environ' = env_without_proxies(environ)
    /\ proxies_removed' = (environ \cap ProxyVars # {})
    /\ pc' = "main"
    /\ UNCHANGED <<session_auth, exitStatus, txt, maxHops, disk, disk0, urls,
                   to_download, idx, attempt, req, redir, resp, gets, status>>

\* main -> Downloader.__init__: the session is built with the credentials,
\* then load_urls, then filter_existing_files; load_urls exits with status 1
\* when the list cannot be read.
Downloader_init ==
    /\ pc = "main"
    /\ session_auth' = Credentials
    /\ IF load_fails(txt)
       THEN /\ pc' = "exit"
            /\ exitStatus' = 1
            /\ UNCHANGED <<urls, to_download, idx>>
       ELSE /\ urls' = load_urls(txt)
            /\ to_download' = filter_existing_files(urls', disk)
            /\ idx' = 1
            /\ pc' = "download_all"
            /\ UNCHANGED exitStatus
    /\ UNCHANGED <<envVars, txt, maxHops, disk, disk0, attempt, req, redir, resp,
                   gets, status>>

\* A variant of download_all that leaves the retry counter as the previous
\* work item left it.
download_all_keeps_counter ==
    /\ pc = "download_all"
    /\ IF idx <= Len(to_download)
       THEN /\ attempt' = (IF attempt = 0 THEN 1 ELSE attempt)
            /\ gets' = 0
            /\ resp' = NoResp
            /\ status' = [status EXCEPT ![idx] = "Attempting"]
            /\ pc' = "attempt"
            /\ UNCHANGED <<exitStatus, idx>>
       ELSE /\ pc' = "exit"
            /\ exitStatus' = 0
            /\ UNCHANGED <<attempt, gets, resp, status, idx>>
    /\ UNCHANGED <<envVars, session_auth, txt, maxHops, disk, disk0, urls,
                   to_download, req, redir>>

\* A variant of download_all that tests the destination again and passes
\* over a URL whose file exists by now.
download_all_rechecks ==
    /\ pc = "download_all"
    /\ IF idx <= Len(to_download)
       THEN IF disk[PathName(to_download[idx])].exists
            THEN /\ idx' = idx + 1
                 /\ UNCHANGED <<pc, exitStatus, attempt, gets, resp, status>>
            ELSE /\ attempt' = 1
                 /\ gets' = 0
                 /\ resp' = NoResp
                 /\ status' = [status EXCEPT ![idx] = "Attempting"]
                 /\ pc' = "attempt"
                 /\ UNCHANGED <<exitStatus, idx>>
       ELSE /\ pc' = "exit"
            /\ exitStatus' = 0
            /\ UNCHANGED <<attempt, gets, resp, status, idx>>
    /\ UNCHANGED <<envVars, session_auth, txt, maxHops, disk, disk0, urls,
                   to_download, req, redir>>

\* download_all: take the next URL of to_download and enter its retry loop,
\* or return to main, which ends with status 0.
download_all ==
    /\ pc = "download_all"
    /\ IF idx <= Len(to_download)
       THEN /\ attempt' = 1
            /\ gets' = 0
            /\ resp' = NoResp
            /\ status' = [status EXCEPT ![idx] = "Attempting"]
            /\ pc' = "attempt"
            /\ UNCHANGED exitStatus
       ELSE /\ pc' = "exit"
            /\ exitStatus' = 0
            /\ UNCHANGED <<attempt, gets, resp, status>>
    /\ UNCHANGED <<envVars, session_auth, txt, maxHops, disk, disk0, urls,
                   to_download, idx, req, redir>>

\* session.get(url): the first request carries the session's credentials.
session_get ==
    /\ pc = "attempt"
    /\ req' = [loc |-> LocOf(to_download[idx]),
                auth |-> first_request_auth(session_auth), hops |-> 0]
    /\ redir' = NoRedir
    /\ resp' = NoResp
    /\ gets' = gets + 1
    /\ pc' = "response"
    /\ UNCHANGED <<envVars, session_auth, exitStatus, txt, maxHops, disk, disk0,
                   urls, to_download, idx, attempt, status>>

\* The server answers with a redirect: the session copies the request,
\* runs rebuild_auth and sends it to the new location.
follow_redirect ==
    /\ pc = "response"
    /\ req.hops < maxHops
    /\ \E target \in Locs, netrc \in BOOLEAN :
         /\ redir' = [orig |-> req.loc, target |-> target, before |-> req.auth,
                      default |-> default_rebuild_auth(req.loc, target, req.auth, netrc),
                      after |-> rebuild_auth(req.loc, target, req.auth, netrc)]
         /\ req' = [loc |-> target,
                    auth |-> rebuild_auth(req.loc, target, req.auth, netrc),
                    hops |-> req.hops + 1]
         /\ session_auth' = auth_after_rebuild(session_auth,
                                 rebuild_auth(req.loc, target, req.auth, netrc))
    /\ UNCHANGED <<pc, envVars, exitStatus, txt, maxHops, disk, disk0, urls,
                   to_download, idx, attempt, resp, gets, status>>

\* A variant of the except branch that lets the last failure end the process.
AttemptFailed_abort ==
    IF IsLastAttempt(attempt)
    THEN /\ status' = [status EXCEPT ![idx] = "Failed"]
         /\ pc' = "exit"
         /\ exitStatus' = 1
         /\ UNCHANGED <<attempt, idx>>
    ELSE /\ attempt' = attempt + 1
         /\ pc' = "attempt"
         /\ UNCHANGED <<status, idx, exitStatus>>

\* A variant of the except branch that starts the next URL after any failure.
AttemptFailed_moves_on ==
    /\ status' = (IF IsLastAttempt(attempt)
                  THEN [status EXCEPT ![idx] = "Failed"] ELSE status)
    /\ idx' = idx + 1
    /\ pc' = "download_all"
    /\ UNCHANGED <<attempt, exitStatus>>

\* The except branch of download_with_retries: retry, or give up after the
\* last attempt and return to download_all.
AttemptFailed ==
    IF IsLastAttempt(attempt)
    THEN /\ status' = [status EXCEPT ![idx] = "Failed"]
         /\ idx' = idx + 1
         /\ pc' = "download_all"
         /\ UNCHANGED <<attempt, exitStatus>>
    ELSE /\ attempt' = attempt + 1
         /\ pc' = "attempt"
         /\ UNCHANGED <<status, idx, exitStatus>>

\* A variant in which the file is opened before the request is made, so a
\* failed request leaves an empty file.
attempt_raises_after_open ==
    /\ pc = "response"
    /\ \E code \in {"neterr"} \cup {s \in StatusClasses : raise_for_status(s)} :
         resp' = [code |-> code, body |-> <<>>, ok |-> FALSE]
    /\ disk' = [disk EXCEPT ![download_filename(to_download[idx])] =
                    open_wb_write(@, <<>>)]
    /\ AttemptFailed
    /\ req' = NoReq
    /\ redir' = NoRedir
    /\ UNCHANGED <<envVars, session_auth, txt, maxHops, disk0, urls, to_download,
                   gets>>

\* The attempt raises before the file is opened: a network error inside
\* session.get, or raise_for_status on the final response.
attempt_raises ==
    /\ pc = "response"
    /\ \E code \in {"neterr"} \cup {s \in StatusClasses : raise_for_status(s)} :
         resp' = [code |-> code, body |-> <<>>, ok |-> FALSE]
    /\ AttemptFailed
    /\ req' = NoReq
    /\ redir' = NoRedir
    /\ UNCHANGED <<envVars, session_auth, txt, maxHops, disk, disk0, urls,
                   to_download, gets>>

\* The final response passes raise_for_status: the file is opened 'wb' and
\* the chunks are written as they arrive; the stream either ends (success,
\* break) or raises after n chunks.
attempt_streams ==
    /\ pc = "response"
    /\ \E code \in {s \in StatusClasses : ~raise_for_status(s)},
          body \in Bodies, ok \in BOOLEAN :
         \E n \in (IF ok THEN {Len(body)} ELSE 0..Len(body)) :
            /\ resp' = [code |-> code, body |-> body, ok |-> ok]
            /\ disk' = [disk EXCEPT ![download_filename(to_download[idx])] =
                            open_wb_write(@, Prefix(body, n))]
            /\ IF ok
               THEN /\ status' = [status EXCEPT ![idx] = "Succeeded"]
                    /\ idx' = idx + 1
                    /\ pc' = "download_all"
                    /\ UNCHANGED <<attempt, exitStatus>>
               ELSE AttemptFailed
    /\ req' = NoReq
    /\ redir' = NoRedir
    /\ UNCHANGED <<envVars, session_auth, txt, maxHops, disk0, urls, to_download,
                   gets>>

Next ==
    \/ remove_proxy_env_vars
    \/ Downloader_init
    \/ download_all
    \/ session_get
    \/ follow_redirect
    \/ attempt_raises
    \/ attempt_streams

Spec == Init /\ [][Next]_vars

TypeOK ==
    /\ pc \in {"start", "main", "download_all", "attempt", "response", "exit"}
    /\ idx \in 0..(MaxUrls + 1)
    /\ attempt \in 0..MAX_RETRIES

\* ------------------------------------------------------------------ claims

QueueIdx == 1..Len(to_download)
DestOf(i) == PathName(to_download[i])
Sent == pc = "response"
Redirected == Sent /\ redir # NoRedir
Occurrences(f) == Cardinality({k \in 1..Len(txt.rows) : PathName(txt.rows[k]) = f})
Downloads(f) == Cardinality({i \in QueueIdx : status[i] # "Pending" /\ DestOf(i) = f})

\* C1 (as stated): no request sent to a host other than the authentication
\* host carries the Authorization header built from the configured
\* username/password.
C1_CredentialsOnlyToAuthHost ==
    Sent /\ req.loc.host # AUTH_HOST => req.auth # "session"

\* C2: on a redirect between two different hosts, neither of which is the
\* authentication host, the redirected request is sent without an
\* Authorization header, whatever the default credential step left on it.
C2_CrossHostStripped ==
    (Redirected /\ redir.orig.host # redir.target.host
                /\ redir.orig.host # AUTH_HOST /\ redir.target.host # AUTH_HOST)
        => req.auth = "none" /\ redir.after = "none"

\* C2 witness: the default step attached credentials (from .netrc) on such a
\* redirect and the request was still sent without the header.
C2_Witness ==
    /\ Redirected
    /\ redir.orig.host = DataA /\ redir.target.host = DataB
    /\ redir.default = "netrc"
    /\ req.loc = redir.target /\ req.auth = "none"

\* C3 (as stated): on a redirect whose original or target host is the
\* authentication host, a request that carried an Authorization header
\* before the redirect still carries one when it is sent again.
C3_AuthHostRedirectKeepsHeader ==
    (Redirected /\ (redir.orig.host = AUTH_HOST \/ redir.target.host = AUTH_HOST)
                /\ redir.before # "none")
        => req.auth # "none"

\* C4: a work item whose attempts all fail gets exactly MAX_RETRIES GETs: it
\* is Failed only after the MAX_RETRIES-th GET, it is retried after every
\* earlier failure, it never gets more, and once Failed it is behind the
\* driver, which only ever requests the item it is attempting.
C4_RetryBound ==
    /\ gets <= MAX_RETRIES
    /\ \A i \in QueueIdx : status[i] = "Failed" => i < idx
    /\ (pc = "download_all" /\ idx > 1 /\ status[idx - 1] = "Failed")
          => gets = MAX_RETRIES /\ ~resp.ok
    /\ (pc = "attempt" /\ gets > 0)
          => ~resp.ok /\ gets < MAX_RETRIES /\ status[idx] = "Attempting"
    /\ pc \in {"attempt", "response"}
          => idx \in QueueIdx /\ status[idx] = "Attempting"

\* C4 witness: an item has just ended Failed after its fifth GET.
C4_Witness ==
    /\ pc = "download_all" /\ idx = 2
    /\ status[1] = "Failed" /\ gets = MAX_RETRIES /\ ~resp.ok

\* C5: when attempt k of a work item succeeds after k-1 failures, k GETs
\* were issued, the item is Succeeded, its destination file holds exactly
\* the body of attempt k's response, and the driver has left the item.
C5_SuccessOnAttemptK ==
    (pc = "download_all" /\ resp.ok)
        => /\ idx > 1
           /\ status[idx - 1] = "Succeeded"
           /\ attempt \in 1..MAX_RETRIES
           /\ gets = attempt
           /\ disk[DestOf(idx - 1)] = File(resp.body)

\* C5 witness: success on the third attempt with a two-chunk body.
C5_Witness ==
    /\ pc = "download_all" /\ resp.ok /\ idx = 2
    /\ attempt = 3 /\ gets = 3 /\ Len(resp.body) = 2
    /\ disk[DestOf(1)] = File(resp.body)

\* C6 (as stated): no destination path is downloaded by more than one work
\* item.
C6_EachFileFetchedOnce ==
    \A i, j \in QueueIdx :
        (i # j /\ status[i] # "Pending" /\ status[j] # "Pending")
            => DestOf(i) # DestOf(j)

\* C6 (amended): a destination path is downloaded by no more work items than
\* there are URLs in the input list naming it, by none if it existed when
\* the run started, and at the end of the run by exactly one work item per
\* URL naming it otherwise.
C6_FetchedOncePerListedUrl ==
    \A f \in FileNames :
        /\ Downloads(f) <= Occurrences(f)
        /\ disk0[f].exists => Downloads(f) = 0
        /\ (pc = "exit" /\ exitStatus = 0 /\ ~disk0[f].exists)
              => Downloads(f) = Occurrences(f)

\* C6 witness: a finished run downloaded one path once and skipped another.
C6_Witness ==
    /\ pc = "exit" /\ exitStatus = 0
    /\ Len(txt.rows) = 2 /\ Len(to_download) = 1
    /\ Downloads(DestOf(1)) = 1 /\ Occurrences(DestOf(1)) = 1

\* C7: a URL whose destination path exists when the run starts is not in
\* the work queue, and no request is ever issued for it.
C7_ExistingFileSkipped ==
    /\ \A i \in QueueIdx : ~disk0[DestOf(i)].exists
    /\ \A k \in 1..Len(urls) :
          disk0[PathName(urls[k])].exists
              => /\ \A i \in QueueIdx : to_download[i] # urls[k]
                 /\ disk[PathName(urls[k])] = disk0[PathName(urls[k])]
    /\ (Sent /\ req.hops = 0)
          => /\ req.loc = LocOf(to_download[idx])
             /\ ~disk0[DestOf(idx)].exists

\* C7 witness: a run ended having skipped a listed URL whose (empty) file
\* existed, after downloading another one.
C7_Witness ==
    /\ pc = "exit" /\ exitStatus = 0
    /\ Len(urls) = 2 /\ Len(to_download) = 1
    /\ \E k \in 1..2 : disk0[PathName(urls[k])] = File(<<>>)
    /\ status[1] = "Succeeded"

\* C8: a Failed work item does not end the run: the driver moves to the
\* next item, the process exits only when every queued item is terminal,
\* its exit status is then 0, and until then a step is always possible.
C8_FailureDoesNotAbort ==
    /\ \A i \in QueueIdx :
          status[i] = "Failed"
              => /\ idx > i
                 /\ (pc = "exit" => exitStatus = 0 /\ idx = Len(to_download) + 1)
    /\ (pc = "exit" /\ txt.ok)
          => /\ exitStatus = 0
             /\ idx = Len(to_download) + 1
             /\ \A i \in QueueIdx : status[i] \in Terminal
    /\ pc # "exit" => ENABLED Next

\* C8 witness: the run ended with status 0 after the first item Failed and
\* the second was still run to a terminal state.
C8_Witness ==
    /\ pc = "exit" /\ exitStatus = 0
    /\ Len(to_download) = 2
    /\ status[1] = "Failed" /\ status[2] \in Terminal

\* C9: when the URL list cannot be read, the only step of the process is to
\* exit with a non-zero status: no work queue, no request, no change to any
\* file.
C9_UnreadableListIsFatal ==
    ~txt.ok
        => /\ pc \in {"start", "main", "exit"}
           /\ (pc = "exit" => exitStatus # 0)
           /\ to_download = <<>> /\ urls = <<>>
           /\ gets = 0 /\ req = NoReq
           /\ disk = disk0
           /\ \A i \in Items : status[i] = "Pending"

\* C9 witness: the process has exited with status 1 on an unreadable list,
\* leaving an existing file as it was.
C9_Witness ==
    /\ ~txt.ok /\ pc = "exit" /\ exitStatus = 1
    /\ \E f \in FileNames : disk[f].exists

\* C10: the work queue is the input list with the URLs whose file existed
\* removed, in input order with duplicates kept, and the items are started
\* in queue order: an item has been requested only if every earlier item
\* is already terminal.
C10_OrderPreserved ==
    (pc \notin {"start", "main"} /\ txt.ok)
        => /\ urls = txt.rows
           /\ to_download = SelectSeq(urls, LAMBDA u : ~disk0[PathName(u)].exists)
           /\ \A i, j \in QueueIdx :
                 (i < j /\ status[j] # "Pending") => status[i] \in Terminal

\* C10 witness: two different URLs were queued in input order and the
\* second is being requested after the first ended.
C10_Witness ==
    /\ Sent /\ idx = 2
    /\ to_download = txt.rows /\ to_download[1] # to_download[2]
    /\ status[1] \in Terminal /\ status[2] = "Attempting"

\* The terminal segment of the URL's path, without the query string.
TerminalSegment(url) == url.segs[Len(url.segs)]

\* C11 (as stated): the destination file name of a URL is the terminal
\* segment of its path with the query string ignored, for the filter (a URL
\* whose so-named file exists at start is not queued) and for the fetcher (a
\* Succeeded item has left a file of that name).
C11_FilenameIgnoresQuery ==
    /\ \A k \in 1..Len(urls) :
          disk0[TerminalSegment(urls[k])].exists
              => \A i \in QueueIdx : to_download[i] # urls[k]
    /\ \A i \in QueueIdx :
          status[i] = "Succeeded" => disk[TerminalSegment(to_download[i])].exists

\* C13 (as stated): an attempt ends the work item as Succeeded only when its
\* final response has a 2xx status and the body streamed completely.
C13_OnlyCompleted2xxSucceeds ==
    (pc = "download_all" /\ idx > 1 /\ status[idx - 1] = "Succeeded")
        => resp.code = "2xx" /\ resp.ok

\* C12: from the first request on (in fact from the end of
\* remove_proxy_env_vars on) neither http_proxy nor https_proxy is in the
\* process environment.
C12_ProxiesAbsentDuringRequests ==
    /\ pc # "start" => environ \cap ProxyVars = {}
    /\ Sent => "http_proxy" \notin environ /\ "https_proxy" \notin environ

\* C12 witness: a request is in flight in a run that started with a proxy
\* variable set.
C12_Witness ==
    Sent /\ proxies_removed /\ environ = {}

AfterAttempt == (pc = "attempt" /\ gets > 0) \/ (pc = "download_all" /\ idx > 1)
LastItem == IF pc = "attempt" THEN idx ELSE idx - 1
RaisedBeforeOpen(r) == r.code \in {"neterr", "4xx", "5xx"}
IsPrefix(s, t) == Len(s) <= Len(t) /\ s = SubSeq(t, 1, Len(s))

\* C14 (as stated): after every attempt n, failed ones included, the
\* destination file holds no bytes written by an attempt before n: what it
\* holds are bytes of attempt n's response.
C14_EveryAttemptTruncates ==
    AfterAttempt => IsPrefix(disk[DestOf(LastItem)].data, resp.body)

\* C14 (amended): after every attempt whose response passed the status
\* check, whether it then succeeded or broke off, the destination file
\* exists and holds only bytes of that attempt's response (all of them on
\* success); this covers the file left by a Failed item whose last attempt
\* got that far.
C14_OpenedAttemptTruncates ==
    (AfterAttempt /\ ~RaisedBeforeOpen(resp))
        => /\ disk[DestOf(LastItem)].exists
           /\ IsPrefix(disk[DestOf(LastItem)].data, resp.body)
           /\ resp.ok => disk[DestOf(LastItem)].data = resp.body

\* C14 witness: an item ended Failed with its fifth attempt broken off after
\* one of two chunks, and the file holds that one chunk.
C14_Witness ==
    /\ pc = "download_all" /\ idx = 2 /\ status[1] = "Failed"
    /\ ~RaisedBeforeOpen(resp) /\ ~resp.ok /\ Len(resp.body) = 2
    /\ disk[DestOf(1)] = File(<<"x">>)

\* C15: at most one work item is Attempting at any time, it is the one the
\* driver is at, and an item has left Pending only if its predecessor is
\* Succeeded or Failed.
C15_StrictlySequential ==
    /\ Cardinality({i \in QueueIdx : status[i] = "Attempting"}) <= 1
    /\ \A i \in QueueIdx : status[i] = "Attempting"
          => i = idx /\ pc \in {"attempt", "response"}
    /\ \A i \in QueueIdx :
          (i > 1 /\ status[i] # "Pending") => status[i - 1] \in Terminal

\* C15 witness: the second item is being requested, the first having Failed.
C15_Witness ==
    /\ Sent /\ idx = 2 /\ gets = 1
    /\ status[1] = "Failed" /\ status[2] = "Attempting"

\* C16: while a work item is processed its retry counter is in
\* 1..MAX_RETRIES, is 1 before the item's first GET and is one more than
\* the number of the item's failed attempts, whatever earlier items did.
C16_RetryCounterPerItem ==
    /\ pc \in {"attempt", "response"} => attempt \in 1..MAX_RETRIES
    /\ pc = "attempt" => attempt = gets + 1
    /\ pc = "response" => attempt = gets

\* C16 witness: the second item is on its fifth attempt after the first
\* item used up all five.
C16_Witness ==
    /\ pc = "response" /\ idx = 2 /\ status[1] = "Failed"
    /\ attempt = MAX_RETRIES /\ gets = MAX_RETRIES

\* C17: the work queue stays what the filter made of the URL list and the
\* directory found at start, and the driver never passes over a queued URL:
\* every item behind the driver was attempted, even when a file had
\* appeared at its destination in the meantime.
C17_QueueComputedOnce ==
    (pc \notin {"start", "main"} /\ txt.ok)
        => /\ to_download = filter_existing_files(txt.rows, disk0)
           /\ \A i \in QueueIdx : i < idx => status[i] \in Terminal
           /\ pc = "exit" => idx = Len(to_download) + 1

\* C17 witness: the second item is being requested although the first item
\* has meanwhile written a file at its destination.
C17_Witness ==
    /\ Sent /\ idx = 2 /\ status[2] = "Attempting"
    /\ ~disk0[DestOf(2)].exists /\ disk[DestOf(2)].exists

\* C18: once the session is built its (username, password) pair is the
\* configured one for the rest of the run, and every first request of a GET
\* carries the credentials, also after a redirected request had its header
\* removed.
C18_SessionAuthNeverChanges ==
    pc \notin {"start", "main"}
        => /\ session_auth = Credentials
           /\ (Sent /\ req.hops = 0) => req.auth = "session"

\* C18 witness: a redirected request has just been sent with its header
\* removed, and the session still holds the credentials.
C18_Witness ==
    /\ Redirected /\ redir.before = "session" /\ req.auth = "none"
    /\ session_auth = Credentials

\* C19: every Succeeded work item has a file at the path the filter tests
\* for its URL, so the filter applied to the same URL list over the
\* directory as it is now does not queue that URL.
C19_SucceededIsSkippedOnRerun ==
    \A i \in QueueIdx :
        status[i] = "Succeeded"
            => /\ disk[PathName(to_download[i])].exists
               /\ LET again == filter_existing_files(urls, disk)
                  IN  \A j \in 1..Len(again) : again[j] # to_download[i]

\* C19 witness: a run ended with the URL that has a query string Succeeded,
\* and a second filtering queues nothing.
C19_Witness ==
    /\ pc = "exit" /\ exitStatus = 0
    /\ Len(to_download) = 1 /\ to_download[1] = U3 /\ status[1] = "Succeeded"
    /\ filter_existing_files(urls, disk) = <<>>

\* C20: a step in which the attempt fails before the body is read (network
\* error, or error status raised by the status check) changes no file of the
\* save directory.
C20_EarlyFailureLeavesDirectory ==
    [][(pc = "response" /\ pc' # "response" /\ RaisedBeforeOpen(resp'))
          => disk' = disk]_vars

\* C20 witness: the second attempt failed on a network error and the file
\* still holds the chunk the first, broken-off attempt wrote.
C20_Witness ==
    /\ pc = "attempt" /\ gets = 2 /\ resp.code = "neterr"
    /\ disk[DestOf(idx)] = File(<<"x">>)

====
